---- MODULE Spec2Model ----
(***************************************************************************)
(* A model of the blog application of src/main.py: three tables (users,    *)
(* posts, comments), the session principal of each browser, and one action *)
(* per route handler.  The register handler is split at the point where    *)
(* its email lookup has returned and its insert has not yet run, because   *)
(* the server handles requests in concurrent threads and two registrations *)
(* may interleave there.  Every other handler is one atomic step.          *)
(***************************************************************************)
EXTENDS Integers, FiniteSets, Sequences, TLC

\* ------------------------------------------------------------------ bounds
\* Largest post identifier / comment identifier the model lets the tables reach.
MaxPostId == 2
MaxCommentId == 1

\* ------------------------------------------------------------------ inputs
\* Browsers (one session cookie each).
Clients == {"c1", "c2"}
\* The first email registered becomes user 1, the administrator.
Emails == {"a@x.com", "b@x.com"}
\* The passwords chosen at registration, and those tried at login (one of them
\* is nobody's).
RegisterPasswords == {11}
LoginPasswords == {11, 23}
\* The salt drawn when a password is hashed.
Salts == {3}
Names == {"Ann"}
CommentTexts == {"Nice post"}
\* The day on which the requests are served (year, month, day).
Days == {<<2024, 2, 5>>}
\* The create/edit post form submissions tried: two share a title.
PostForms ==
    { [title |-> "Hello", subtitle |-> "s1", body |-> "b1", img_url |-> "u1"],
      [title |-> "Hello", subtitle |-> "s2", body |-> "b2", img_url |-> "u2"],
      [title |-> "World", subtitle |-> "s1", body |-> "b2", img_url |-> "u1"] }
PostIdInputs == 1 .. MaxPostId

\* ------------------------------------------------------------- constants
\* The administrator's identifier (current_user.id != 1).
AdminId == 1
\* No session principal: the anonymous user.
Anonymous == 0
\* A NULL column value.
NULL == 0

VARIABLES
    users,      \* table user_accts: records [id, email, password, name]
    posts,      \* table blog_posts: records [id, author_id, title, subtitle, date, body, img_url]
    comments,   \* table comments: records [id, author_id, post_id, text]
    session,    \* session[c]: the identifier of the logged-in user of browser c, or Anonymous
    pc,         \* pc[c]: "idle", or "register_insert" while c's register request is between lookup and insert
    pending,    \* pending[c]: the email of c's register request in flight, or ""
    response    \* the response to the request handled last

vars == <<users, posts, comments, session, pc, pending, response>>

\* ------------------------------------------------------------- responses
NoForm == ""
NoResponse == [route |-> "", status |-> 0, target |-> "", arg |-> 0, flash |-> "", error |-> ""]

render_template(route, template) ==
    [route |-> route, status |-> 200, target |-> template, arg |-> 0, flash |-> "", error |-> ""]

redirect(route, endpoint, arg, flash) ==
    [route |-> route, status |-> 302, target |-> endpoint, arg |-> arg, flash |-> flash, error |-> ""]

abort(route, code) ==
    [route |-> route, status |-> code, target |-> "", arg |-> 0, flash |-> "", error |-> ""]

\* An exception no handler catches: the server answers 500.
unhandled(route, exception) ==
    [route |-> route, status |-> 500, target |-> "", arg |-> 0, flash |-> "", error |-> exception]

FlashAlreadySignedUp == "You've already signed up with that email, log in instead!"
FlashNoEmail == "That email does not exist, please try again."
FlashBadPassword == "Password incorrect, please try again."
FlashNeedLogin == "You need to Login or register to comment"

\* ------------------------------------------------------------- helpers
Ids(table) == {r.id : r \in table}

SetMax(S) == CHOOSE m \in S : \A x \in S : x <= m

\* An INTEGER PRIMARY KEY column without AUTOINCREMENT: the largest id plus one.
NextId(table) == IF table = {} THEN 1 ELSE SetMax(Ids(table)) + 1

\* db.get_or_404: the rows with that primary key (none: 404).
get(table, id) == {r \in table : r.id = id}

\* db.select(UserAccts).where(UserAccts.email == email)
select_by_email(email) == {u \in users : u.email = email}

\* The key-derivation digest of a salted password.
pbkdf2(salt, password) == (password * 37 + salt * 101) % 997

generate_password_hash(password, salt) ==
    [method |-> "pbkdf2:sha256", salt |-> salt, digest |-> pbkdf2(salt, password)]

\* Faulty variant: a check that accepts every password.
check_password_hash_any(pwhash, password) == TRUE

\* The digest of the password tried, under the stored salt, against the stored one.
check_password_hash(pwhash, password) ==
    pbkdf2(pwhash.salt, password) = pwhash.digest

\* date.strftime("%B %d, %Y")
MonthName == <<"January", "February", "March", "April", "May", "June", "July",
               "August", "September", "October", "November", "December">>
Digit == <<"0", "1", "2", "3", "4", "5", "6", "7", "8", "9">>
Pad2(n) == Digit[(n \div 10) + 1] \o Digit[(n % 10) + 1]
Pad4(n) == Pad2(n \div 100) \o Pad2(n % 100)
strftime(day) == MonthName[day[2]] \o " " \o Pad2(day[3]) \o ", " \o Pad4(day[1])

\* Faulty variant: the email column without its unique constraint.
email_unconstrained(email) == FALSE

\* unique=True on user_accts.email: would inserting this email violate it?
email_taken(email) == \E u \in users : u.email = email

\* Faulty variant: the title column without its unique constraint.
title_unconstrained(title, id) == FALSE

\* unique=True on blog_posts.title: would row `id` holding `title` violate it?
title_taken(title, id) == \E p \in posts : p.title = title /\ p.id # id

\* ------------------------------------------------------------- Init
Init ==
    /\ users = {}
    /\ posts = {}
    /\ comments = {}
    /\ session = [c \in Clients |-> Anonymous]
    /\ pc = [c \in Clients |-> "idle"]
    /\ pending = [c \in Clients |-> NoForm]
    /\ response = NoResponse

\* ------------------------------------------------------------- register
\* register, up to the result of the email lookup (lines 113-124).
register(c, valid, email) ==
    /\ pc[c] = "idle"
    /\ IF ~valid
       THEN /\ response' = render_template("register", "register.html")
            /\ UNCHANGED <<pc, pending>>
       ELSE IF select_by_email(email) # {}
       THEN /\ response' = redirect("register", "login", 0, FlashAlreadySignedUp)
            /\ UNCHANGED <<pc, pending>>
       ELSE /\ pc' = [pc EXCEPT ![c] = "register_insert"]
            /\ pending' = [pending EXCEPT ![c] = email]
            /\ UNCHANGED response
    /\ UNCHANGED <<users, posts, comments, session>>

\* register, from the hashing of the password to the redirect (lines 126-136):
\* the form's password and name are first read here.
register_insert(c, password, name, salt) ==
    /\ pc[c] = "register_insert"
    /\ LET new_user == [id |-> NextId(users), email |-> pending[c],
                        password |-> generate_password_hash(password, salt),
                        name |-> name]
       IN IF email_taken(pending[c])
          THEN /\ response' = unhandled("register", "IntegrityError")
               /\ UNCHANGED <<users, session>>
          ELSE /\ users' = users \cup {new_user}
               /\ session' = [session EXCEPT ![c] = new_user.id]
               /\ response' = redirect("register", "get_all_posts", 0, "")
    /\ pc' = [pc EXCEPT ![c] = "idle"]
    /\ pending' = [pending EXCEPT ![c] = NoForm]
    /\ UNCHANGED <<posts, comments>>

\* ------------------------------------------------------------- login / logout
login(c, valid, u_email, u_password) ==
    /\ pc[c] = "idle"
    /\ LET u_acct == select_by_email(u_email)
       IN IF ~valid
          THEN /\ response' = render_template("login", "login.html")
               /\ UNCHANGED session
          ELSE IF u_acct = {}
          THEN /\ response' = redirect("login", "login", 0, FlashNoEmail)
               /\ UNCHANGED session
          ELSE LET u == CHOOSE u \in u_acct : TRUE
               IN IF ~check_password_hash(u.password, u_password)
                  THEN /\ response' = redirect("login", "login", 0, FlashBadPassword)
                       /\ UNCHANGED session
                  ELSE /\ session' = [session EXCEPT ![c] = u.id]
                       /\ response' = redirect("login", "get_all_posts", 0, "")
    /\ UNCHANGED <<users, posts, comments, pc, pending>>

logout(c) ==
    /\ pc[c] = "idle"
    /\ session' = [session EXCEPT ![c] = Anonymous]
    /\ response' = redirect("logout", "get_all_posts", 0, "")
    /\ UNCHANGED <<users, posts, comments, pc, pending>>

get_all_posts(c) ==
    /\ pc[c] = "idle"
    /\ response' = render_template("get_all_posts", "index.html")
    /\ UNCHANGED <<users, posts, comments, session, pc, pending>>

\* ------------------------------------------------------------- comments
\* Faulty variant: the comment branch without its authentication test.
is_authenticated_always(c) == TRUE

\* current_user.is_authenticated
is_authenticated(c) == session[c] # Anonymous

show_post(c, post_id, valid, text) ==
    /\ pc[c] = "idle"
    /\ IF get(posts, post_id) = {}
       THEN /\ response' = abort("show_post", 404)
            /\ UNCHANGED comments
       ELSE IF ~valid
       THEN /\ response' = render_template("show_post", "post.html")
            /\ UNCHANGED comments
       ELSE IF ~is_authenticated(c)
       THEN /\ response' = redirect("show_post", "login", 0, FlashNeedLogin)
            /\ UNCHANGED comments
       ELSE /\ NextId(comments) <= MaxCommentId
            /\ comments' = comments \cup
                   {[id |-> NextId(comments), author_id |-> session[c],
                     post_id |-> post_id, text |-> text]}
            /\ response' = render_template("show_post", "post.html")
    /\ UNCHANGED <<users, posts, session, pc, pending>>

\* ------------------------------------------------------------- posts
\* Faulty variant: a guard that lets every logged-in user through.
admin_only_any_user(c, route, function) ==
    IF session[c] = Anonymous
    THEN /\ response' = unhandled(route, "AttributeError")
         /\ UNCHANGED <<users, posts, comments, session, pc, pending>>
    ELSE function

\* Faulty variant: a guard with its comparison inverted.
admin_only_inverted(c, route, function) ==
    IF session[c] = Anonymous
    THEN /\ response' = unhandled(route, "AttributeError")
         /\ UNCHANGED <<users, posts, comments, session, pc, pending>>
    ELSE IF session[c] = AdminId
    THEN /\ response' = abort(route, 403)
         /\ UNCHANGED <<users, posts, comments, session, pc, pending>>
    ELSE function

\* The decorator: `function` runs only when current_user.id is 1.  The
\* anonymous user object has no attribute id, so reading it raises.
admin_only(c, route, function) ==
    IF session[c] = Anonymous
    THEN /\ response' = unhandled(route, "AttributeError")
         /\ UNCHANGED <<users, posts, comments, session, pc, pending>>
    ELSE IF session[c] # AdminId
    THEN /\ response' = abort(route, 403)
         /\ UNCHANGED <<users, posts, comments, session, pc, pending>>
    ELSE function

add_new_post_body(c, valid, form, today) ==
    /\ IF ~valid
       THEN /\ response' = render_template("add_new_post", "make-post.html")
            /\ UNCHANGED posts
       ELSE IF title_taken(form.title, NULL)
       THEN /\ response' = unhandled("add_new_post", "IntegrityError")
            /\ UNCHANGED posts
       ELSE /\ NextId(posts) <= MaxPostId
            /\ posts' = posts \cup
                   {[id |-> NextId(posts), author_id |-> session[c],
                     title |-> form.title, subtitle |-> form.subtitle,
                     date |-> strftime(today), body |-> form.body,
                     img_url |-> form.img_url]}
            /\ response' = redirect("add_new_post", "get_all_posts", 0, "")
    /\ UNCHANGED <<users, comments, session, pc, pending>>

\* The guard runs before the form is read.
add_new_post(c) ==
    /\ pc[c] = "idle"
    /\ admin_only(c, "add_new_post",
                  \E valid \in BOOLEAN, form \in PostForms, today \in Days :
                      add_new_post_body(c, valid, form, today))

\* Faulty variant: an edit that forgets the image reference.
overwrite_keeping_img_url(post, form, author_id) ==
    [post EXCEPT !.title = form.title, !.subtitle = form.subtitle,
                 !.author_id = author_id, !.body = form.body]

\* The assignments of the edit form's data to the post.
overwrite(post, form, author_id) ==
    [post EXCEPT !.title = form.title,
                 !.subtitle = form.subtitle,
                 !.img_url = form.img_url,
                 !.author_id = author_id,
                 !.body = form.body]

edit_post_body(c, post_id, valid, form) ==
    /\ IF get(posts, post_id) = {}
       THEN /\ response' = abort("edit_post", 404)
            /\ UNCHANGED posts
       ELSE IF ~valid
       THEN /\ response' = render_template("edit_post", "make-post.html")
            /\ UNCHANGED posts
       ELSE IF title_taken(form.title, post_id)
       THEN /\ response' = unhandled("edit_post", "IntegrityError")
            /\ UNCHANGED posts
       ELSE LET post == CHOOSE p \in get(posts, post_id) : TRUE
            IN /\ posts' = (posts \ {post}) \cup {overwrite(post, form, session[c])}
               /\ response' = redirect("edit_post", "show_post", post.id, "")
    /\ UNCHANGED <<users, comments, session, pc, pending>>

edit_post(c, post_id) ==
    /\ pc[c] = "idle"
    /\ admin_only(c, "edit_post",
                  \E valid \in BOOLEAN, form \in PostForms :
                      edit_post_body(c, post_id, valid, form))

\* The relationship BlogPost.comments declares no cascade: deleting the
\* parent sets the post_id of its comments to NULL.
comments_after_delete(post_id) ==
    {IF cm.post_id = post_id THEN [cm EXCEPT !.post_id = NULL] ELSE cm : cm \in comments}

delete_post(c, post_id) ==
    /\ pc[c] = "idle"
    /\ IF get(posts, post_id) = {}
       THEN /\ response' = abort("delete_post", 404)
            /\ UNCHANGED <<posts, comments>>
       ELSE /\ posts' = posts \ get(posts, post_id)
            /\ comments' = comments_after_delete(post_id)
            /\ response' = redirect("delete_post", "get_all_posts", 0, "")
    /\ UNCHANGED <<users, session, pc, pending>>

\* ------------------------------------------------------------- specification
Next ==
    \E c \in Clients :
        \/ \E valid \in BOOLEAN, e \in Emails : register(c, valid, e)
        \/ \E p \in RegisterPasswords, n \in Names, salt \in Salts :
               register_insert(c, p, n, salt)
        \/ \E valid \in BOOLEAN, e \in Emails, p \in LoginPasswords : login(c, valid, e, p)
        \/ logout(c)
        \/ get_all_posts(c)
        \/ \E id \in PostIdInputs, valid \in BOOLEAN, t \in CommentTexts :
               show_post(c, id, valid, t)
        \/ add_new_post(c)
        \/ \E id \in PostIdInputs : edit_post(c, id)
        \/ \E id \in PostIdInputs : delete_post(c, id)

Spec == Init /\ [][Next]_vars

\* ------------------------------------------------------------- properties
\* The step answers a request to `route`.  Every step of a handler sets the
\* response's route (but the register lookup that finds nothing, which sets
\* no response), so in the properties below this test follows from the
\* action it precedes and only spares evaluating it on other handlers' steps.
Handled(route) == response'.route = route

NonAdmin(c) == session[c] # Anonymous /\ session[c] # AdminId

\* The administrator's create-post and edit-post requests, with their forms.
AdminCreates(c, valid, f, d) ==
    pc[c] = "idle" /\ session[c] = AdminId /\ add_new_post_body(c, valid, f, d)

AdminEdits(c, id, valid, f) ==
    pc[c] = "idle" /\ session[c] = AdminId /\ edit_post_body(c, id, valid, f)

Stored(id) == \E p \in posts : p.id = id

HeldByOther(title, id) == \E p \in posts : p.title = title /\ p.id # id

\* The post `id` is overwritten with the form, its author set to `author_id`;
\* its identifier and date, the other posts, comments and users are kept.
Overwritten(id, f, author_id) ==
    \E old \in posts, new \in posts' :
        /\ old.id = id /\ new.id = id
        /\ posts' = (posts \ {old}) \cup {new}
        /\ new.title = f.title /\ new.subtitle = f.subtitle
        /\ new.img_url = f.img_url /\ new.body = f.body
        /\ new.author_id = author_id
        /\ new.date = old.date
        /\ comments' = comments /\ users' = users

\* C1: a create-post or edit-post request whose session principal exists and
\* is not 1 is answered 403 by the guard, whatever the post identifier, and
\* leaves the posts as they were.
C1_NonAdminForbidden ==
    [][/\ Handled("add_new_post") =>
              \A c \in Clients :
                  (NonAdmin(c) /\ add_new_post(c)) =>
                      response' = abort("add_new_post", 403) /\ posts' = posts
       /\ Handled("edit_post") =>
              \A c \in Clients, id \in PostIdInputs :
                  (NonAdmin(c) /\ edit_post(c, id)) =>
                      response' = abort("edit_post", 403) /\ posts' = posts]_vars

\* A non-admin is logged in, posts exist, and an edit-post was just refused.
C1_Witness ==
    /\ response = abort("edit_post", 403)
    /\ posts # {}
    /\ \E c \in Clients : NonAdmin(c)

\* C2: a create-post or edit-post request without a session principal is
\* answered 403 (or redirected to login) and leaves the posts as they were.
C2_AnonymousForbidden ==
    [][\A c \in Clients, id \in PostIdInputs :
          (session[c] = Anonymous /\ (add_new_post(c) \/ edit_post(c, id))) =>
              /\ posts' = posts
              /\ \/ response'.status = 403
                 \/ response'.status = 302 /\ response'.target = "login"]_vars

\* C3: a post leaves the store only in a delete request of principal 1; a
\* delete request of anyone else removes nothing.
C3_OnlyAdminDeletes ==
    [][/\ (\E p \in posts : p.id \notin Ids(posts')) =>
              \E c \in Clients, id \in PostIdInputs :
                  delete_post(c, id) /\ session[c] = AdminId
       /\ \A c \in Clients, id \in PostIdInputs :
              (delete_post(c, id) /\ session[c] # AdminId) => posts' = posts]_vars

\* C4: no two users share an email, also when registrations interleave; a
\* register request for a stored email creates no user, logs nobody in and
\* redirects to login with the notice; a register request whose email was
\* stored by another request after its own lookup creates no user and logs
\* nobody in either (its insert is refused by the table).
C4_UniqueEmail ==
    [][/\ \A u, v \in users' : u.email = v.email => u = v
       /\ Handled("register") =>
              /\ \A c \in Clients, e \in Emails :
                     (register(c, TRUE, e) /\ \E u \in users : u.email = e) =>
                         /\ users' = users
                         /\ session' = session
                         /\ pc' = pc
                         /\ response' =
                                redirect("register", "login", 0, FlashAlreadySignedUp)
              /\ \A c \in Clients, p \in RegisterPasswords, n \in Names, s \in Salts :
                     (/\ register_insert(c, p, n, s)
                      /\ \E u \in users : u.email = pending[c]) =>
                         /\ users' = users
                         /\ session' = session
                         /\ response'.status = 500]_vars

\* Two registrations of one email interleaved: the second insert was refused.
C4_Witness ==
    /\ response = unhandled("register", "IntegrityError")
    /\ \E u \in users : \A c \in Clients : session[c] \in {Anonymous, u.id}
    /\ Cardinality(users) = 1

\* C5: no two posts share a title; a create-post with a stored title and an
\* edit-post that moves a post to another post's title are refused by the
\* table and leave the posts as they were.  (Only the administrator's
\* requests reach the table: C1.)
C5_UniqueTitle ==
    [][/\ \A p, q \in posts' : p.title = q.title => p = q
       /\ Handled("add_new_post") =>
              \A c \in Clients, f \in PostForms, d \in Days :
                  (HeldByOther(f.title, NULL) /\ AdminCreates(c, TRUE, f, d)) =>
                      /\ posts' = posts
                      /\ response' = unhandled("add_new_post", "IntegrityError")
       /\ Handled("edit_post") =>
              \A c \in Clients, id \in PostIdInputs, f \in PostForms :
                  (Stored(id) /\ HeldByOther(f.title, id) /\ AdminEdits(c, id, TRUE, f)) =>
                      /\ posts' = posts
                      /\ response' = unhandled("edit_post", "IntegrityError")]_vars

\* Two posts are stored and an edit that would have made their titles equal
\* was just refused.
C5_Witness ==
    /\ response = unhandled("edit_post", "IntegrityError")
    /\ Cardinality(posts) = 2

\* C6: a valid comment submission on a stored post adds nothing and redirects
\* to login with the notice when the caller is anonymous, and otherwise adds
\* exactly one comment, by the caller, on that post; nothing else changes.
C6_CommentIffAuthenticated ==
    [][Handled("show_post") =>
          \A c \in Clients, id \in PostIdInputs, t \in CommentTexts :
              (Stored(id) /\ show_post(c, id, TRUE, t)) =>
                  /\ users' = users /\ posts' = posts /\ session' = session
                  /\ IF session[c] = Anonymous
                     THEN /\ comments' = comments
                          /\ response' =
                                 redirect("show_post", "login", 0, FlashNeedLogin)
                     ELSE \E cm \in comments' :
                              /\ cm \notin comments
                              /\ cm.id \notin Ids(comments)
                              /\ comments' = comments \cup {cm}
                              /\ cm.author_id = session[c]
                              /\ cm.post_id = id
                              /\ cm.text = t]_vars

\* A comment by a logged-in user who is not the administrator is stored on a
\* stored post, and the post page was just rendered.
C6_Witness ==
    /\ response = render_template("show_post", "post.html")
    /\ \E cm \in comments :
           /\ Stored(cm.post_id)
           /\ \E c \in Clients : session[c] = cm.author_id
           /\ cm.author_id # AdminId

\* C7: a login with an unknown email and one with a wrong password leave the
\* sessions as they were and redirect to login with different notices; a login
\* with matching credentials binds the browser's session to that user and
\* redirects to the post listing; no login changes a user, post or comment.
C7_LoginOnlyOnMatch ==
    [][Handled("login") =>
          \A c \in Clients, e \in Emails, p \in LoginPasswords :
              login(c, TRUE, e, p) =>
                  /\ users' = users /\ posts' = posts /\ comments' = comments
                  /\ FlashNoEmail # FlashBadPassword
                  /\ IF \A u \in users : u.email # e
                     THEN /\ session' = session
                          /\ response' = redirect("login", "login", 0, FlashNoEmail)
                     ELSE \E u \in users :
                            /\ u.email = e
                            /\ IF u.password = generate_password_hash(p, u.password.salt)
                               THEN /\ session' = [session EXCEPT ![c] = u.id]
                                    /\ response' =
                                           redirect("login", "get_all_posts", 0, "")
                               ELSE /\ session' = session
                                    /\ response' =
                                           redirect("login", "login", 0, FlashBadPassword)]_vars

\* A login with a wrong password was just refused while both browsers stay
\* logged in.
C7_Witness ==
    /\ response = redirect("login", "login", 0, FlashBadPassword)
    /\ \A c \in Clients : session[c] # Anonymous

C9_EditOverwrites ==
    [][/\ Handled("edit_post") =>
              \A c \in Clients, id \in PostIdInputs :
                  /\ \A f \in PostForms :
                         (Stored(id) /\ AdminEdits(c, id, TRUE, f)) =>
                             Overwritten(id, f, session[c])
                  /\ (~Stored(id) /\ session[c] = AdminId /\ edit_post(c, id)) =>
                         /\ response'.status = 404
                         /\ UNCHANGED <<users, posts, comments, session>>
       /\ Handled("delete_post") =>
              \A c \in Clients, id \in PostIdInputs :
                  (~Stored(id) /\ delete_post(c, id)) =>
                      /\ response'.status = 404
                      /\ UNCHANGED <<users, posts, comments, session>>]_vars

\* C9 amended: the same, for a valid edit whose title no other stored post
\* holds (an edit to another post's title is refused by the table: C5).
C9_EditOverwritesAmended ==
    [][/\ Handled("edit_post") =>
              \A c \in Clients, id \in PostIdInputs :
                  /\ \A f \in PostForms :
                         (/\ Stored(id)
                          /\ ~HeldByOther(f.title, id)
                          /\ AdminEdits(c, id, TRUE, f)) =>
                             Overwritten(id, f, session[c])
                  /\ (~Stored(id) /\ session[c] = AdminId /\ edit_post(c, id)) =>
                         /\ response'.status = 404
                         /\ UNCHANGED <<users, posts, comments, session>>
       /\ Handled("delete_post") =>
              \A c \in Clients, id \in PostIdInputs :
                  (~Stored(id) /\ delete_post(c, id)) =>
                      /\ response'.status = 404
                      /\ UNCHANGED <<users, posts, comments, session>>]_vars

\* An edit was just stored: the edited post has a comment and another post
\* is stored beside it.
C9_Witness ==
    /\ response.route = "edit_post" /\ response.status = 302
    /\ Cardinality(posts) = 2
    /\ \E cm \in comments : cm.post_id = response.arg

\* C10: every stored post's author is user 1, and user 1, once stored, stays
\* stored and unchanged.
C10_AuthorIsAdmin ==
    [][/\ \A p \in posts' : p.author_id = AdminId
       /\ \A u \in users : u.id = AdminId =>
              /\ u \in users'
              /\ \A v \in users' : v.id = AdminId => v = u]_vars

\* A post is stored and was just edited while a non-admin is logged in.
C10_Witness ==
    /\ posts # {}
    /\ response = redirect("edit_post", "show_post", 1, "")
    /\ \E c \in Clients : NonAdmin(c)
    /\ Cardinality(users) = 2

====
